---- MODULE Spec2Model ----
(***************************************************************************)
(* Model of src/tempmail.py: the menu session of run_interface (the main   *)
(* thread), the 1secmail helpers it calls, and the detached daemon threads *)
(* started by "Show Inbox (fast)".                                         *)
(*                                                                         *)
(* Strings that the code takes apart (addresses, the typed message id) are *)
(* sequences of one-character strings, so that str.split and str.isdigit   *)
(* are computed.  A list object returned by a list call is a record        *)
(* [src, inv, site, val]: (src, inv) is the object's identity (which call  *)
(* of which invocation allocated it), site the line that allocated it      *)
(* (109: r.json(), 112: the [] of the except branch), val its content, so  *)
(* that the code's `is not` comparison is an identity comparison in the    *)
(* model too.                                                              *)
(***************************************************************************)
EXTENDS Naturals, Sequences, FiniteSets

VARIABLES
    pc,         \* position of the main thread in run_interface
    email,      \* run_interface local `email`
    login,      \* run_interface local `login`
    domain,     \* run_interface local `domain`
    last_count, \* run_interface local `last_count`
    fast_msgs,  \* run_interface local `fast_msgs` (a list object)
    cells,      \* cells[i]: out_container[0] of the i-th fast-inbox invocation
    thr,        \* thr[i]: the daemon thread of the i-th fast-inbox invocation
    screen      \* what the current menu operation called and printed

vars == <<pc, email, login, domain, last_count, fast_msgs, cells, thr, screen>>

----------------------------------------------------------------------------
(* Bounds and input pools *)

\* fast-inbox invocations per session
MaxInv == 2

\* messages a list call returns at most
MaxMsgs == 1

\* a local variable that has not been assigned yet
Unset == <<"?">>

\* addresses the provider may answer genRandomMailbox with: well-formed ones,
\* one without '@' and one with two '@'
AddressPool ==
    { <<"a", "@", "x">>, <<"b", "@", "x">>,
      <<"a", "x">>, <<"a", "@", "b", "@", "x">> }

\* an HTTP exchange: ok = FALSE is any of network error, timeout, non-2xx
\* status, body that is not JSON or holds no element (every one raises
\* inside the helper's try)
Failure == [ok |-> FALSE, val |-> <<>>]

CreateResponses == {Failure} \cup {[ok |-> TRUE, val |-> a] : a \in AddressPool}

\* the n messages with ids first, first + 1, ... (a message is its id)
Run(first, n) == [k \in 1..n |-> first + k - 1]

\* the message lists a getMessages call may answer with: every count up to
\* MaxMsgs, and for each count above 0 two lists with different ids
ListPool == {Run(first, n) : first \in {1, 2}, n \in 0..MaxMsgs}

ListResponses == {Failure} \cup {[ok |-> TRUE, val |-> l] : l \in ListPool}

Absent == "<absent>"
NoBody == "(no body)"

\* readMessage payloads: each body field absent, empty or filled
PayloadPool ==
    [textBody : {Absent, "", "plain"},
     htmlBody : {Absent, "<p>html</p>"},
     intro    : {Absent, "intro"}]

NoPayload == [textBody |-> Absent, htmlBody |-> Absent, intro |-> Absent]

ReadResponses ==
    {[ok |-> FALSE, val |-> NoPayload]} \cup {[ok |-> TRUE, val |-> p] : p \in PayloadPool}

\* what the user may type as a message id (after strip())
\* "sup2" stands for the one character U+00B2 (superscript two)
IdInputs == { <<>>, <<"7">>, <<"x">>, <<"7", "x">>, <<"sup2">> }

\* the characters int() accepts in a literal
DecimalDigits == {"0", "1", "2", "3", "4", "5", "6", "7", "8", "9"}

\* the characters str.isdigit() accepts: the decimal digits and the digits
\* of other kinds, such as superscripts
Digits == DecimalDigits \cup {"sup2"}

----------------------------------------------------------------------------
(* Pure helpers *)

RECURSIVE SplitAcc(_, _, _)
SplitAcc(s, cur, acc) ==
    IF s = <<>> THEN Append(acc, cur)
    ELSE IF Head(s) = "@" THEN SplitAcc(Tail(s), <<>>, Append(acc, cur))
    ELSE SplitAcc(Tail(s), Append(cur, Head(s)), acc)

\* str.split("@")
Split(s) == SplitAcc(s, <<>>, <<>>)

\* str.isdigit() looking at the first character only
IsDigitFirstChar(s) == s # <<>> /\ s[1] \in Digits

\* str.isdigit()
IsDigit(s) == s # <<>> /\ \A k \in 1..Len(s) : s[k] \in Digits

\* int(msg_id), line 237: ValueError unless every character is a decimal
\* digit
IntRaises(s) == s = <<>> \/ \E k \in 1..Len(s) : s[k] \notin DecimalDigits

\* secmail_get_mailbox, lines 96-103: the address, or the exception re-raised
secmail_get_mailbox(resp) == [raised |-> ~resp.ok, val |-> resp.val]

\* lines 105-112 re-raising like lines 101-103 instead of returning []
secmail_list_messages_reraise(resp) ==
    [raised |-> ~resp.ok, site |-> 109, val |-> resp.val]

\* secmail_list_messages, lines 105-112: the list, or [] after the exception
\* was caught; nothing is raised to the caller
secmail_list_messages(resp) ==
    [raised |-> FALSE, site |-> IF resp.ok THEN 109 ELSE 112,
     val |-> IF resp.ok THEN resp.val ELSE <<>>]

\* secmail_read_message, lines 114-121: the payload, or None after the
\* exception was caught; nothing is raised to the caller
secmail_read_message(resp) ==
    [raised |-> FALSE, isNone |-> ~resp.ok,
     msg |-> IF resp.ok THEN resp.val ELSE NoPayload]

Truthy(field) == field # Absent /\ field # ""

\* msg.get("textBody") or msg.get("htmlBody") or "(no body)"
BodyOf(msg) ==
    IF Truthy(msg.textBody) THEN msg.textBody
    ELSE IF Truthy(msg.htmlBody) THEN msg.htmlBody
    ELSE NoBody

\* a list object: who allocated it (src, inv), at which return statement of
\* secmail_list_messages (site), the login and domain the call was made
\* with, and its content; NoRef is no object
NoRef == [src |-> "none", inv |-> 0, site |-> 0, login |-> Unset,
          domain |-> Unset, val |-> <<>>]

\* a `is` b on list objects
SameObject(a, b) == a.src = b.src /\ a.inv = b.inv

\* the screen after banner(): nothing called, nothing printed yet.
\* refreshFailed: the delayed refresh of the invocation on screen printed
\* "Error listing messages" (line 111)
Blank(op) ==
    [op |-> op, listCalls |-> 0, readCalls |-> 0, listFailed |-> FALSE,
     readFailed |-> FALSE, createFailed |-> FALSE, attempts |-> <<>>,
     shownEmail |-> Unset, rendered |-> NoRef, inspected |-> FALSE,
     alive |-> FALSE, updated |-> FALSE, prior |-> 0, count |-> 0,
     reported |-> FALSE, body |-> Absent, saved |-> FALSE,
     savedBody |-> Absent, badId |-> FALSE, refreshFailed |-> FALSE,
     typed |-> <<>>, msg |-> NoPayload]

\* the main thread is inside the fast-inbox handler, lines 213-223, where
\* its locals fast_msgs, container and t are live
InFastInbox == pc \in {"inbox_show", "inbox_join", "inbox_wait"}

----------------------------------------------------------------------------
Init ==
    /\ pc = "start"
    /\ email = Unset
    /\ login = Unset
    /\ domain = Unset
    /\ last_count = 0
    /\ fast_msgs = NoRef
    /\ cells = <<>>
    /\ thr = <<>>
    /\ screen = Blank("boot")

\* the `return` of line 194 left out
AfterCreateNoReturn(raised, nparts) ==
    IF raised \/ nparts = 2 THEN "menu" ELSE "crashed"

\* lines 189-196: where run_interface goes after the first mailbox request
AfterCreate(raised, nparts) ==
    IF raised THEN "init_failed"
    ELSE IF nparts = 2 THEN "menu"
    ELSE "crashed"

\* run_interface, lines 189-197: startup_sequence, the first mailbox
Startup(resp) ==
    /\ pc = "start"
    /\ LET g == secmail_get_mailbox(resp)
           parts == Split(g.val)
           s0 == [Blank("start") EXCEPT !.attempts = <<"primary">>,
                                        !.createFailed = g.raised]
       IN  /\ pc' = AfterCreate(g.raised, Len(parts))
           /\ IF g.raised
              THEN /\ screen' = s0
                   /\ UNCHANGED <<email, login, domain>>
              ELSE /\ email' = g.val
                   /\ IF Len(parts) = 2
                      THEN /\ login' = parts[1]
                           /\ domain' = parts[2]
                           /\ screen' = [s0 EXCEPT !.shownEmail = g.val]
                      ELSE /\ screen' = s0
                           /\ UNCHANGED <<login, domain>>
    /\ last_count' = 0
    /\ UNCHANGED <<fast_msgs, cells, thr>>

\* the interpreter exits: a daemon thread still running is abandoned
AtExit(t) ==
    IF t.state \in {"running", "stored"}
    THEN [state |-> "killed", login |-> Unset, domain |-> Unset]
    ELSE t

\* an exception nothing catches leaves run_interface (only KeyboardInterrupt
\* is caught, lines 280-283): traceback, the process ends
Uncaught(s) ==
    /\ pc' = "crashed"
    /\ screen' = s
    /\ thr' = [i \in 1..Len(thr) |-> AtExit(thr[i])]
    /\ UNCHANGED <<email, login, domain, last_count, fast_msgs, cells>>

\* lines 213-216: the fast fetch, the one-slot container, the thread started
ShowInboxFast(resp) ==
    /\ pc = "menu"
    /\ Len(cells) < MaxInv
    /\ LET l == secmail_list_messages(resp)
           fast == [src |-> "fast", inv |-> Len(cells) + 1, site |-> l.site,
                    login |-> login, domain |-> domain, val |-> l.val]
           s0 == [Blank("inbox") EXCEPT !.listCalls = 1, !.listFailed = ~resp.ok]
       IN  IF l.raised THEN Uncaught(s0)
           ELSE /\ fast_msgs' = fast
                /\ cells' = Append(cells, fast)
                /\ thr' = Append(thr, [state |-> "running", login |-> login,
                                       domain |-> domain])
                /\ screen' = s0
                /\ pc' = "inbox_show"
                /\ UNCHANGED <<email, login, domain, last_count>>

\* line 217: show_inbox(container[0], email, title="Fast Inbox")
ShowInboxRender ==
    /\ pc = "inbox_show"
    /\ screen' = [screen EXCEPT !.rendered = cells[Len(cells)],
                                !.shownEmail = email]
    /\ pc' = "inbox_join"
    /\ UNCHANGED <<email, login, domain, last_count, fast_msgs, cells, thr>>

\* t.is_alive(): started and its function has not returned
IsAlive(t) == t.state \in {"running", "stored"}

\* line 220 without its is_alive() test
UpdatedNoAliveTest(alive, container, fast) == ~SameObject(container, fast)

\* line 220: `not t.is_alive() and container[0] is not fast_msgs`
Updated(alive, container, fast) == ~alive /\ ~SameObject(container, fast)

\* lines 219-222: t.join(timeout=0.05), then the test that prints
\* "Inbox updated."
ShowInboxJoin ==
    /\ pc = "inbox_join"
    /\ LET alive == IsAlive(thr[Len(thr)])
       IN  screen' = [screen EXCEPT !.inspected = TRUE, !.alive = alive,
                          !.updated = Updated(alive, cells[Len(cells)], fast_msgs)]
    /\ pc' = "inbox_wait"
    /\ UNCHANGED <<email, login, domain, last_count, fast_msgs, cells, thr>>

\* line 223: "Press Enter to return to menu...", then banner() (line 200)
\* clears the screen.  From here on the main thread never reads fast_msgs,
\* container or t again (lines 213-215 rebind them before any use), so their
\* values are dropped from the state.
ShowInboxReturn ==
    /\ pc = "inbox_wait"
    /\ pc' = "menu"
    /\ screen' = Blank("menu")
    /\ fast_msgs' = NoRef
    /\ cells' = [cells EXCEPT ![Len(cells)] = NoRef]
    /\ UNCHANGED <<email, login, domain, last_count, thr>>

\* the "Enter to return..." prompt that ends choices 2 to 5 (lines 229, 235,
\* 240, 249, 258, 262, 270) and the sleep of line 277; then banner() (line
\* 200) clears the screen and the menu is shown again
ReturnToMenu ==
    /\ pc = "pause"
    /\ pc' = "menu"
    /\ screen' = Blank("menu")
    /\ UNCHANGED <<email, login, domain, last_count, fast_msgs, cells, thr>>

\* a thread that runs only while the main thread waits on it
CanRunWhileObserved(i) ==
    thr[i].state = "running" /\ InFastInbox /\ i = Len(thr)

\* the daemon thread of invocation i can run line 180-181: it was started
\* and has not stored yet (the threads of an ended process are "killed")
CanRun(i) == thr[i].state = "running"

\* one container shared by all invocations: the thread stores into the
\* container of the newest invocation
BackgroundRefreshShared(i, resp) ==
    /\ CanRun(i)
    /\ LET l == secmail_list_messages(resp)
       IN  cells' = [cells EXCEPT ![Len(cells)] =
                        IF ~InFastInbox THEN NoRef
                        ELSE [src |-> "bg", inv |-> i, site |-> l.site,
                              login |-> thr[i].login,
                              domain |-> thr[i].domain, val |-> l.val]]
    /\ thr' = [thr EXCEPT ![i] = [state |-> "stored", login |-> Unset,
                                  domain |-> Unset]]
    /\ UNCHANGED <<pc, email, login, domain, last_count, fast_msgs, screen>>

\* background_refresh, lines 177-183, in the thread of invocation i: sleep,
\* list call with the login and domain it was started with, store into
\* out_container[0]; on an exception the slot is left as it is.  login and
\* domain are not used after the call and a container the main thread no
\* longer holds is never read: neither is kept in the state.
BackgroundRefresh(i, resp) ==
    /\ CanRun(i)
    /\ LET l == secmail_list_messages(resp)
           held == InFastInbox /\ i = Len(cells)
       IN  cells' = [cells EXCEPT ![i] =
                        IF ~held THEN NoRef
                        ELSE IF l.raised THEN @
                        ELSE [src |-> "bg", inv |-> i, site |-> l.site,
                              login |-> thr[i].login,
                              domain |-> thr[i].domain, val |-> l.val]]
    /\ thr' = [thr EXCEPT ![i] = [state |-> "stored", login |-> Unset,
                                  domain |-> Unset]]
    /\ screen' = IF InFastInbox /\ i = Len(cells) /\ ~resp.ok
                 THEN [screen EXCEPT !.refreshFailed = TRUE]
                 ELSE screen
    /\ UNCHANGED <<pc, email, login, domain, last_count, fast_msgs>>

\* background_refresh returns: the thread is no longer alive
ThreadExit(i) ==
    /\ thr[i].state = "stored"
    /\ thr' = [thr EXCEPT ![i].state = "done"]
    /\ UNCHANGED <<pc, email, login, domain, last_count, fast_msgs, cells, screen>>

\* lines 226-230: choice 2, the list call and the "No messages" exit
ReadList(resp) ==
    /\ pc = "menu"
    /\ LET l  == secmail_list_messages(resp)
           s0 == [Blank("read") EXCEPT !.listCalls = 1, !.listFailed = ~resp.ok,
                                       !.count = Len(l.val)]
       IN  IF l.raised THEN Uncaught(s0)
           ELSE /\ IF l.val = <<>>
                   THEN /\ screen' = s0
                        /\ pc' = "pause"
                   ELSE /\ screen' = [s0 EXCEPT !.shownEmail = email]
                        /\ pc' = "read_id"
                /\ UNCHANGED <<email, login, domain, last_count, fast_msgs,
                               cells, thr>>

\* lines 232-236: the id typed is not a number
ReadBadId(idInput) ==
    /\ pc = "read_id"
    /\ ~IsDigit(idInput)
    /\ pc' = "pause"
    /\ screen' = [screen EXCEPT !.badId = TRUE, !.typed = idInput]
    /\ UNCHANGED <<email, login, domain, last_count, fast_msgs, cells, thr>>

\* lines 232-249: the id typed is a number: the read call, the body shown,
\* the message saved on request (save_message, lines 158-170)
ReadById(idInput, resp, save) ==
    /\ pc = "read_id"
    /\ IsDigit(idInput)
    /\ LET got == secmail_read_message(resp)
           st  == [screen EXCEPT !.typed = idInput]
           s0  == [st EXCEPT !.readCalls = 1, !.readFailed = ~resp.ok]
       IN  IF IntRaises(idInput) THEN Uncaught(st)
           ELSE IF got.raised THEN Uncaught(s0)
           ELSE /\ screen' =
                     IF got.isNone THEN s0
                     ELSE [s0 EXCEPT !.msg = got.msg,
                               !.body = BodyOf(got.msg), !.saved = save,
                               !.savedBody = IF save THEN BodyOf(got.msg)
                                             ELSE Absent]
                /\ pc' = "pause"
                /\ UNCHANGED <<email, login, domain, last_count, fast_msgs,
                               cells, thr>>

\* choice 3 starting the new mailbox with a count of zero
ChangeEmailResetCount(resp) ==
    /\ pc = "menu"
    /\ LET g == secmail_get_mailbox(resp)
           parts == Split(g.val)
           s0 == [Blank("change") EXCEPT !.attempts = <<"primary">>,
                                         !.createFailed = g.raised]
       IN  IF g.raised
           THEN /\ screen' = s0
                /\ UNCHANGED <<email, login, domain, last_count>>
           ELSE /\ email' = g.val
                /\ last_count' = 0
                /\ IF Len(parts) = 2
                   THEN /\ login' = parts[1]
                        /\ domain' = parts[2]
                        /\ screen' = [s0 EXCEPT !.shownEmail = g.val]
                   ELSE /\ screen' = s0
                        /\ UNCHANGED <<login, domain>>
    /\ pc' = "pause"
    /\ UNCHANGED <<fast_msgs, cells, thr>>

\* lines 251-258: choice 3, change email
ChangeEmail(resp) ==
    /\ pc = "menu"
    /\ LET g == secmail_get_mailbox(resp)
           parts == Split(g.val)
           s0 == [Blank("change") EXCEPT !.attempts = <<"primary">>,
                                         !.createFailed = g.raised]
       IN  IF g.raised
           THEN /\ screen' = s0
                /\ UNCHANGED <<email, login, domain>>
           ELSE /\ email' = g.val
                /\ IF Len(parts) = 2
                   THEN /\ login' = parts[1]
                        /\ domain' = parts[2]
                        /\ screen' = [s0 EXCEPT !.shownEmail = g.val]
                   ELSE /\ screen' = s0
                        /\ UNCHANGED <<login, domain>>
    /\ pc' = "pause"
    /\ UNCHANGED <<last_count, fast_msgs, cells, thr>>

\* lines 260-262: choice 4, copy the address
CopyEmail ==
    /\ pc = "menu"
    /\ screen' = [Blank("copy") EXCEPT !.shownEmail = email]
    /\ pc' = "pause"
    /\ UNCHANGED <<email, login, domain, last_count, fast_msgs, cells, thr>>

\* choice 5 switching to another address by itself when its list call fails
RefreshReselecting(resp) ==
    /\ pc = "menu"
    /\ screen' = [Blank("refresh") EXCEPT !.listCalls = 1, !.listFailed = ~resp.ok,
                        !.shownEmail = email, !.prior = last_count,
                        !.count = Len(resp.val),
                        !.reported = Len(resp.val) > last_count]
    /\ IF resp.ok
       THEN UNCHANGED <<email, login, domain>>
       ELSE /\ email' = <<"b", "@", "x">>
            /\ login' = <<"b">>
            /\ domain' = <<"x">>
    /\ last_count' = Len(resp.val)
    /\ pc' = "pause"
    /\ UNCHANGED <<fast_msgs, cells, thr>>

\* line 267 with >= for >
NewArrivedOrSame(count, last) == count >= last

\* line 267: `len(msgs) > last_count`
NewArrived(count, last) == count > last

\* lines 264-270: choice 5, refresh and check for new messages
Refresh(resp) ==
    /\ pc = "menu"
    /\ LET l  == secmail_list_messages(resp)
           s0 == [Blank("refresh") EXCEPT !.listCalls = 1, !.listFailed = ~resp.ok]
       IN  IF l.raised THEN Uncaught(s0)
           ELSE /\ screen' = [s0 EXCEPT
                       !.shownEmail = email,
                       !.prior = last_count, !.count = Len(l.val),
                       !.reported = NewArrived(Len(l.val), last_count)]
                /\ last_count' = Len(l.val)
                /\ pc' = "pause"
                /\ UNCHANGED <<email, login, domain, fast_msgs, cells, thr>>

\* lines 272-274: choice 6, quit; run_interface returns and the process ends
Quit ==
    /\ pc = "menu"
    /\ pc' = "exited"
    /\ screen' = Blank("quit")
    /\ thr' = [i \in 1..Len(thr) |-> AtExit(thr[i])]
    /\ UNCHANGED <<email, login, domain, last_count, fast_msgs, cells>>

\* lines 275-277: any other input
InvalidChoice ==
    /\ pc = "menu"
    /\ screen' = Blank("invalid")
    /\ pc' = "pause"
    /\ UNCHANGED <<email, login, domain, last_count, fast_msgs, cells, thr>>

\* one step of the daemon thread of invocation i
ThreadStep(i) ==
    /\ i <= Len(thr)
    /\ \/ \E resp \in ListResponses : BackgroundRefresh(i, resp)
       \/ ThreadExit(i)

Next ==
    \/ \E resp \in CreateResponses : Startup(resp)
    \/ \E resp \in ListResponses : ShowInboxFast(resp)
    \/ ShowInboxRender
    \/ ShowInboxJoin
    \/ ShowInboxReturn
    \/ ReturnToMenu
    \/ \E i \in 1..Len(thr), resp \in ListResponses : BackgroundRefresh(i, resp)
    \/ \E i \in 1..Len(thr) : ThreadExit(i)
    \/ \E resp \in ListResponses : ReadList(resp)
    \/ \E idInput \in IdInputs : ReadBadId(idInput)
    \/ \E idInput \in IdInputs, resp \in ReadResponses, save \in BOOLEAN :
          ReadById(idInput, resp, save)
    \/ \E resp \in CreateResponses : ChangeEmail(resp)
    \/ CopyEmail
    \/ \E resp \in ListResponses : Refresh(resp)
    \/ Quit
    \/ InvalidChoice

Spec == Init /\ [][Next]_vars

\* the operating system schedules every started thread, and its list call
\* ends within its timeout (line 107, timeout=8)
FairSpec == Spec /\ \A i \in 1..MaxInv : WF_vars(ThreadStep(i))

----------------------------------------------------------------------------
(* Claims *)

\* the session is in its menu loop with a mailbox
MailboxActive ==
    pc \in {"menu", "pause", "read_id", "inbox_show", "inbox_join", "inbox_wait"}

\* the provisioning on screen (session start or "new address") found the
\* primary provider failing
PrimaryFailed == screen.op \in {"start", "change"} /\ screen.createFailed

\* C1: when provisioning runs and the primary provider's createMailbox fails,
\* the fallback provider's createMailbox has been attempted exactly once
\* before the failure is reported.
C1_FallbackAttemptedOnce ==
    PrimaryFailed =>
        Cardinality({k \in 1..Len(screen.attempts) :
                        screen.attempts[k] = "fallback"}) = 1

\* C2: whenever a mailbox is active, the address shown equals
\* login + "@" + domain of the values used for the list and read calls.
C2_AddressIsLoginAtDomain ==
    MailboxActive => email = login \o <<"@">> \o domain

\* C3: after a failed provisioning at session start the session is stopped:
\* it is not in the menu loop and takes no further step, no address, login
\* or domain exists, no thread was started, no list or read call was issued.
C3_InitFailureStops ==
    /\ [](screen.op = "start" /\ screen.createFailed =>
            /\ pc = "init_failed"
            /\ email = Unset /\ login = Unset /\ domain = Unset
            /\ thr = <<>> /\ cells = <<>>
            /\ screen.listCalls = 0 /\ screen.readCalls = 0)
    /\ [][~(screen.op = "start" /\ screen.createFailed)]_vars

C3_Witness == pc = "init_failed" /\ screen.op = "start" /\ screen.createFailed

\* C4: once the caller has inspected the thread of a fast-inbox invocation:
\* if the thread had finished by then and its result differs from the fast
\* result, "Inbox updated" is shown; if the thread was still alive by then,
\* it is not shown, also after the thread has completed.
C4_UpdatedIffLandedInWindow ==
    pc = "inbox_wait" =>
        /\ (~screen.alive /\ cells[Len(cells)].val # fast_msgs.val) => screen.updated
        /\ screen.alive => ~screen.updated

C4_Witness ==
    /\ pc = "inbox_wait"
    /\ ~screen.alive
    /\ cells[Len(cells)].val # fast_msgs.val
    /\ screen.updated

\* C5: "Inbox updated" is shown only if the delayed refresh returned
\* messages different from the fast fetch's.
C5_UpdatedOnlyIfDifferent ==
    (pc = "inbox_wait" /\ screen.updated) =>
        cells[Len(cells)].val # fast_msgs.val

\* C6: a delayed refresh whose list call failed leaves the one-slot cell
\* holding the fast result, and "Inbox updated" is not shown.
C6_FailedRefreshIsNoUpdate ==
    (InFastInbox /\ screen.refreshFailed) =>
        /\ cells[Len(cells)] = fast_msgs
        /\ ~screen.updated

\* C7: the list rendered as the fast inbox is the fast fetch's result, under
\* every interleaving of the caller and the background thread.
C7_FastResultRendered ==
    pc \in {"inbox_join", "inbox_wait"} => screen.rendered = fast_msgs

\* the state of the thread of invocation i, "none" before it is started
StateOfThread(i) == IF i <= Len(thr) THEN thr[i].state ELSE "none"

\* C8 (as stated): nothing cancels a started delayed refresh, not even
\* quitting the session.
C8_NeverCancelled ==
    \A i \in 1..Len(thr) : thr[i].state # "killed"

\* C8 (amended): every started delayed refresh eventually completes or fails
\* unless the process has ended; only the end of the process stops it.
C8_CompletesUnlessProcessEnds ==
    /\ \A i \in 1..MaxInv :
          (StateOfThread(i) = "running")
             ~> (StateOfThread(i) = "done" \/ pc \in {"exited", "crashed"})
    /\ [](\A i \in 1..Len(thr) :
             thr[i].state = "killed" => pc \in {"exited", "crashed"})

C8_Witness ==
    /\ pc = "pause"
    /\ screen.op = "change"
    /\ \E i \in 1..Len(thr) : thr[i].state = "done" /\ i < Len(thr)

\* C9: the explicit refresh reports new messages when the refreshed count is
\* greater than the last observed count, and does not when they are equal.
C9_CountBasedDetection ==
    screen.op = "refresh" =>
        /\ screen.count > screen.prior => screen.reported
        /\ screen.count = screen.prior => ~screen.reported
        /\ last_count = screen.count

C9_Witness ==
    /\ pc = "pause"
    /\ screen.op = "refresh"
    /\ screen.count > screen.prior
    /\ screen.reported

\* C10: a failed list call yields an empty list, a failed read call yields
\* no message, and after either the session is still in its loop with the
\* mailbox it had: it has neither ended nor crashed.
C10_FailuresDegradeGracefully ==
    /\ [](screen.listFailed =>
            /\ MailboxActive
            /\ screen.op = "inbox" => fast_msgs.val = <<>>
            /\ screen.op \in {"read", "refresh"} => screen.count = 0)
    /\ [](screen.readFailed =>
            /\ pc = "pause"
            /\ screen.body = Absent /\ ~screen.saved)
    /\ [][(screen'.listFailed \/ screen'.readFailed) =>
            (email' = email /\ login' = login /\ domain' = domain)]_vars

C10_Witness ==
    /\ pc = "pause"
    /\ screen.op = "read"
    /\ screen.readFailed
    /\ screen.body = Absent

\* C11: address, login and domain change only at session start and in an
\* explicit "new address" request, and only there is a mailbox requested
\* from a provider: show inbox, read message, copy address and refresh leave
\* them as they are, also when their calls fail.
C11_MailboxPinned ==
    [][(email' # email \/ login' # login \/ domain' # domain
          \/ (screen'.attempts # screen.attempts /\ screen'.attempts # <<>>))
         => (pc = "start" \/ (pc = "menu" /\ screen'.op = "change"))]_vars

C11_Witness ==
    /\ pc = "pause"
    /\ screen.op = "refresh"
    /\ screen.listFailed
    /\ screen.attempts = <<>>
    /\ email = login \o <<"@">> \o domain

\* C12: every fast-inbox invocation has its own container: the list object
\* in the container of invocation j was allocated by invocation j, what the
\* caller renders was allocated by the invocation on screen, a container is
\* stored into only by the thread of its own invocation, and by that thread
\* only once (in its step from running to stored).
C12_OneCellPerInvocation ==
    /\ [](\A j \in 1..Len(cells) : cells[j] = NoRef \/ cells[j].inv = j)
    /\ [](InFastInbox => screen.rendered = NoRef
                           \/ screen.rendered.inv = Len(cells))
    /\ [][\A j \in 1..Len(cells) :
            cells'[j] # cells[j] =>
               \/ thr[j].state = "running" /\ thr'[j].state = "stored"
               \/ pc = "inbox_wait" /\ pc' = "menu" /\ j = Len(cells)]_vars

C12_Witness ==
    /\ Len(cells) = 2
    /\ pc = "inbox_wait"
    /\ thr[1].state = "stored"
    /\ thr[2].state = "done"
    /\ cells[2].src = "bg"
    /\ cells[2].inv = 2
    /\ screen.rendered = fast_msgs

\* C13: the body of a message that was read is the plain-text body if it is
\* present and non-empty, else the HTML body, else the intro field, else
\* "(no body)"; the body shown and the body saved follow that rule.
C13_BodyPreference ==
    (pc = "pause" /\ screen.op = "read" /\ screen.readCalls = 1
        /\ ~screen.readFailed) =>
       LET m == screen.msg
           preferred == IF Truthy(m.textBody) THEN m.textBody
                        ELSE IF Truthy(m.htmlBody) THEN m.htmlBody
                        ELSE IF Truthy(m.intro) THEN m.intro
                        ELSE NoBody
       IN  /\ screen.body = preferred
           /\ screen.saved => screen.savedBody = preferred

\* C14: a list shown by the fast inbox, or reported by it as updated, was
\* fetched for the mailbox whose address heads the screen.
C14_ListUnderItsOwnAddress ==
    (screen.op = "inbox" /\ screen.rendered # NoRef) =>
       /\ screen.shownEmail =
             screen.rendered.login \o <<"@">> \o screen.rendered.domain
       /\ (screen.updated /\ InFastInbox) =>
             screen.shownEmail =
                cells[Len(cells)].login \o <<"@">> \o cells[Len(cells)].domain

\* C15: last_count starts at 0; it changes only in an explicit refresh, which
\* sets it to the count that refresh got; every other operation, "new
\* address" included, leaves it as it is.
C15_LastCountFromRefreshOnly ==
    /\ last_count = 0
    /\ [][last_count' # last_count =>
            (pc = "menu" /\ screen'.op = "refresh")]_vars
    /\ [][(pc = "menu" /\ screen'.op = "refresh") =>
            (screen'.listCalls = 1 /\ last_count' = screen'.count)]_vars
    /\ [](screen.op = "refresh" => last_count = screen.count)

C15_Witness ==
    /\ pc = "pause"
    /\ screen.op = "change"
    /\ screen.shownEmail = email
    /\ last_count > 0

\* C16: a read call is made only in "read message", after a list call of the
\* same operation returned a non-empty list and with an id typed that is all
\* digits; when the list is empty (a failed list call included) or the id is
\* not all digits, the operation waits for Enter to return to the menu and
\* has made no read call and saved nothing.
C16_ReadCallGuarded ==
    /\ screen.readCalls > 0 =>
          /\ screen.op = "read"
          /\ screen.listCalls = 1
          /\ screen.count > 0
          /\ screen.typed # <<>>
          /\ \A k \in 1..Len(screen.typed) : screen.typed[k] \in Digits
    /\ (screen.op = "read" /\ pc # "read_id"
          /\ (screen.count = 0
                \/ screen.typed = <<>>
                \/ \E k \in 1..Len(screen.typed) : screen.typed[k] \notin Digits)) =>
          /\ pc = "pause"
          /\ screen.readCalls = 0
          /\ ~screen.saved
          /\ screen.body = Absent

C16_Witness ==
    /\ pc = "pause"
    /\ screen.op = "read"
    /\ screen.count > 0
    /\ screen.typed = <<"7", "x">>
    /\ screen.readCalls = 0
====
